---- MODULE Spec2Model ----
(***************************************************************************)
(* A model of the AI commit message extension: the prompt builder and the  *)
(* message generator (chatgpt-msg-generator.ts), the scratch-file approval *)
(* flow (openTempFileWithMessage), the generate command                    *)
(* (generateAiCommitCommand) and the configuration wizard                  *)
(* (setOpenaiApiKey).                                                      *)
(*                                                                         *)
(* Texts are sequences of characters.  A fixed literal of the source that  *)
(* no operation looks into is kept as one opaque element of the sequence.  *)
(***************************************************************************)
EXTENDS Integers, Sequences, FiniteSets, TLC

\* ---------------------------------------------------------------- bounds
MaxLen == 2        \* longest generated / edited text, in characters
MaxEdit == 2       \* longest text the user types into the scratch document
MaxEvents == 2     \* most editor events delivered to one approval flow
MaxDiff == 1       \* longest diff and longest completion text, in characters

\* ---------------------------------------------------------------- state
VARIABLES
  apc,           \* position of openTempFileWithMessage
  message,       \* its argument
  fileExists,    \* the scratch file is on disk
  deleteCount,   \* calls of fs.delete that removed it
  saveHandler,   \* the save subscription is registered
  closeHandler,  \* the visibility subscription is registered
  promise,       \* None while pending, Some(result) once settled
  ret,           \* None until the function returns, then Some(result)
  firstEvent,    \* history: the first qualifying event, "none" before it
  firstSaveText, \* history: the document text of the first qualifying save
  resolveCalls,  \* history: calls of resolve
  events         \* history: editor events delivered

approvalVars == <<apc, message, fileExists, deleteCount, saveHandler,
                  closeHandler, promise, ret, firstEvent, firstSaveText,
                  resolveCalls, events>>

VARIABLES
  build,         \* which of the two copies of the generator source is built
  config,        \* configuration.openAI
  gpc,           \* position of ChatgptMsgGenerator.generate
  diff,          \* its first argument
  delimeter,     \* its second argument, None when not passed
  requests,      \* the completion requests issued, in order
  response,      \* history: what the completion call produced
  genRet         \* None until generate returns, then Some(text)

genVars == <<build, config, gpc, diff, delimeter, requests, response, genRet>>

VARIABLES
  wpc,            \* position of setOpenaiApiKey
  customEndpoint, \* its locals, None while undefined
  gptVersion,
  apiKey,
  language,
  notice,         \* the last notification the wizard showed
  written,        \* history: the settings keys written, in order
  dismissed       \* history: some prompt of this run was dismissed

wizardVars == <<wpc, customEndpoint, gptVersion, apiKey, language, notice,
                written, dismissed>>

VARIABLES
  cpc,            \* position of generateAiCommitCommand
  gitExtension,   \* "absent", "inactive" or "active"
  cfgDelimeter,   \* configuration.appearance.delimeter
  thrown,         \* None, or Some(the value caught by the command)
  sink,           \* the texts handed to the commit message writer, in order
  shown,          \* the error notifications the command showed, in order
  logged          \* the diagnostic log entries of the command, in order

commandVars == <<cpc, gitExtension, cfgDelimeter, thrown, sink, shown, logged>>

vars == <<approvalVars, genVars, wizardVars, commandVars>>

\* ---------------------------------------------------------------- texts
Char == {"#", "a", " ", "\n"}

\* the characters a diff or a completion is made of
DiffChar == {"a", "\n"}

RECURSIVE SeqsUpTo(_, _)
SeqsUpTo(C, n) ==
  IF n = 0 THEN {<<>>}
  ELSE LET shorter == SeqsUpTo(C, n - 1)
       IN  shorter \cup {Append(s, c) : s \in {t \in shorter : Len(t) = n - 1}, c \in C}

Texts == SeqsUpTo(Char, MaxLen)
NonEmptyTexts == Texts \ {<<>>}
EditedTexts == SeqsUpTo(Char, MaxEdit)

\* optional values: undefined is <<>>, a present value v is <<v>>
None == <<>>
Some(v) == <<v>>

\* ------------------------------------------------------- idle states
\* no completion call has produced anything yet
NoResponse == [kind |-> "none", choices |-> <<>>]

\* an empty configuration.openAI
NoConfig ==
  [customEndpoint |-> None, apiKey |-> None, gptVersion |-> None,
   language |-> None, temperature |-> None, maxTokens |-> None]

\* openTempFileWithMessage has not been called
ApprovalIdle ==
  /\ apc = "idle"
  /\ message = <<>>
  /\ fileExists = FALSE
  /\ deleteCount = 0
  /\ saveHandler = FALSE
  /\ closeHandler = FALSE
  /\ promise = None
  /\ ret = None
  /\ firstEvent = "none"
  /\ firstSaveText = None
  /\ resolveCalls = 0
  /\ events = 0

\* generate has not been called
GenIdle ==
  /\ build = "part_000"
  /\ config = NoConfig
  /\ gpc = "idle"
  /\ diff = <<>>
  /\ delimeter = None
  /\ requests = <<>>
  /\ response = NoResponse
  /\ genRet = None

\* setOpenaiApiKey is not running
WizardIdle ==
  /\ wpc = "idle"
  /\ customEndpoint = None
  /\ gptVersion = None
  /\ apiKey = None
  /\ language = None
  /\ notice = "none"
  /\ written = <<>>
  /\ dismissed = FALSE

\* generateAiCommitCommand is not running
CommandIdle ==
  /\ cpc = "idle"
  /\ gitExtension = "active"
  /\ cfgDelimeter = None
  /\ thrown = None
  /\ sink = <<>>
  /\ shown = <<>>
  /\ logged = <<>>

\* JavaScript white space, as far as Char has any
IsSpace(c) == c \in {" ", "\n"}

\* String.prototype.trim
RECURSIVE TrimLeft(_)
TrimLeft(s) ==
  IF s = <<>> THEN <<>>
  ELSE IF IsSpace(Head(s)) THEN TrimLeft(Tail(s)) ELSE s

RECURSIVE TrimRight(_)
TrimRight(s) ==
  IF s = <<>> THEN <<>>
  ELSE IF IsSpace(s[Len(s)]) THEN TrimRight(SubSeq(s, 1, Len(s) - 1)) ELSE s

Trim(s) == TrimRight(TrimLeft(s))

\* The regular expression /#.*#.*\n/ matched at position i: a "#", then on
\* the same line another "#", then the rest of that line and its newline.
\* "." never matches a newline, so the match ends at the first newline
\* after i.
HasNewlineAfter(s, i) == \E n \in (i + 1)..Len(s) : s[n] = "\n"

FirstNewlineAfter(s, i) ==
  CHOOSE n \in (i + 1)..Len(s) :
    s[n] = "\n" /\ \A k \in (i + 1)..(n - 1) : s[k] # "\n"

HeaderMatchAt(s, i) ==
  /\ s[i] = "#"
  /\ HasNewlineAfter(s, i)
  /\ \E j \in (i + 1)..(FirstNewlineAfter(s, i) - 1) : s[j] = "#"

\* editedText.replace(/#.*#.*\n/g, "") scanning from position i
RECURSIVE ReplaceFrom(_, _)
ReplaceFrom(s, i) ==
  IF i > Len(s) THEN <<>>
  ELSE IF HeaderMatchAt(s, i) THEN ReplaceFrom(s, FirstNewlineAfter(s, i) + 1)
  ELSE <<s[i]>> \o ReplaceFrom(s, i + 1)

StripHeaderLines(s) == ReplaceFrom(s, 1)

\* the explaining header "# This is a generated commit message. You can edit
\* it and save to approve it #\n\n": the words between the two "#" are kept
\* as one element, which is neither "#" nor a line break
explainingHeader == <<"#", " This is a generated commit message. You can edit it and save to approve it ", "#", "\n", "\n">>

tempFileContent(msg) == explainingHeader \o msg

\* ------------------------------------------------------ prompt builder
Builds == {"part_000", "generators"}

\* the second parameter's default value
defaultDelimeter == <<"*", " ">>

OrDefault(opt, def) == IF opt = None THEN def ELSE opt[1]

\* createInitMessagesPrompt of src/unnamed/part_000: the system and the user
\* instruction interpolate language and delimeter between fixed literals
createInitMessagesPrompt(lang, delim) ==
  << [role |-> "system",
      content |-> <<"sys-1">> \o lang \o <<"sys-2">> \o lang \o <<"sys-3">>],
     [role |-> "user",
      content |-> <<"user-1">> \o lang \o <<"user-2">> \o delim \o <<"user-3">>
                    \o lang \o <<"user-4">> \o delim \o <<"user-5">>] >>

\* createInitMessagesPrompt of generators/chatgpt-msg-generator.ts: a fixed
\* system instruction, and a user instruction that interpolates delimeter only
createInitMessagesPromptGenerators(lang, delim) ==
  << [role |-> "system", content |-> <<"system">>],
     [role |-> "user",
      content |-> <<"korean-1">> \o delim \o <<"korean-2">> \o delim \o <<"korean-3">>] >>

\* a builder that runs the delimeter substitution over the diff as well
generateCommitMessageChatCompletionPromptSubst(b, d, lang, delim) ==
  Append(IF b = "part_000"
         THEN createInitMessagesPrompt(lang, OrDefault(delim, defaultDelimeter))
         ELSE createInitMessagesPromptGenerators(lang, OrDefault(delim, defaultDelimeter)),
         [role |-> "user",
          content |-> IF d # <<>> /\ <<Head(d)>> = OrDefault(delim, defaultDelimeter)
                      THEN Tail(d) ELSE d])

generateCommitMessageChatCompletionPrompt(b, d, lang, delim) ==
  Append(IF b = "part_000"
         THEN createInitMessagesPrompt(lang, OrDefault(delim, defaultDelimeter))
         ELSE createInitMessagesPromptGenerators(lang, OrDefault(delim, defaultDelimeter)),
         [role |-> "user", content |-> d])

\* --------------------------------------------------- message generator
defaultModel == <<"google/gemini-pro-1.5">>
defaultTemperature == 8      \* 0.8, in tenths
defaultMaxTokens == 196

DiffTexts == SeqsUpTo(DiffChar, MaxDiff)

StartsWith(str, prefix) ==
  Len(str) >= Len(prefix) /\ SubSeq(str, 1, Len(prefix)) = prefix

\* String.prototype.toLowerCase, piece by piece
LowerPiece(c) ==
  CASE c = "Perplexity" -> "perplexity"
    [] c = "HTTP" -> "http"
    [] c = "://Host" -> "://host"
    [] OTHER -> c

ToLowerCase(str) == [i \in DOMAIN str |-> LowerPiece(str[i])]

\* the base URL the constructor gives the OpenAI client, None for undefined
BaseURL(cfg) ==
  IF cfg.customEndpoint = None \/ cfg.customEndpoint[1] = <<>> THEN None
  ELSE LET endpoint == Trim(ToLowerCase(cfg.customEndpoint[1]))
       IN  IF endpoint = <<"perplexity">> THEN Some(<<"https://api.perplexity.ai">>)
           ELSE IF StartsWith(endpoint, <<"http">>) THEN Some(endpoint)
           ELSE None

\* a || b on an optional text: undefined and "" are falsy
TextOr(opt, def) == IF opt = None \/ opt[1] = <<>> THEN def ELSE opt[1]

\* a || b on an optional number: undefined and 0 are falsy
NumberOr(opt, def) == IF opt = None \/ opt[1] = 0 THEN def ELSE opt[1]

\* message.content: undefined, null or a string
Contents ==
  {[tag |-> "undefined", text |-> <<>>], [tag |-> "null", text |-> <<>>]}
    \cup {[tag |-> "string", text |-> t] : t \in DiffTexts}

\* what `await this.openAI.chat.completions.create(...)` produces: a
\* rejection, or data whose choices are empty or hold one choice whose
\* message is absent or has a content
Responses ==
  {[kind |-> "reject", choices |-> <<>>], [kind |-> "data", choices |-> <<>>],
   [kind |-> "data", choices |-> <<[message |-> None]>>]}
    \cup {[kind |-> "data", choices |-> <<[message |-> Some([content |-> c])]>>] : c \in Contents}

\* message?.content
ContentOf(choice) ==
  IF choice.message = None THEN [tag |-> "undefined", text |-> <<>>]
  ELSE choice.message[1].content

\* a test that lets the empty string through
NoCommitMessageNullish(content) == content.tag # "string"

\* !commitMessage
NoCommitMessage(content) == content.tag # "string" \/ content.text = <<>>

GenConfigs ==
  [customEndpoint : {None, Some(<<"openai">>), Some(<<"Perplexity">>),
                     Some(<<"http", "://host">>), Some(<<"http", "://Host">>)},
   apiKey : {Some(<<"sk-", "abc">>)},
   gptVersion : {None, Some(<<>>), Some(<<"gpt-4">>)},
   language : {None, Some(<<>>), Some(<<"Korean">>)},
   temperature : {None, Some(0), Some(5)},
   maxTokens : {None, Some(0), Some(100)}]

Delimeters == {None, Some(<<"*", " ">>), Some(<<"a">>)}

InitGen ==
  /\ CommandIdle
  /\ ApprovalIdle
  /\ WizardIdle
  /\ build \in Builds
  /\ config \in GenConfigs
  /\ gpc = "start"
  /\ diff \in DiffTexts
  /\ delimeter \in Delimeters
  /\ requests = <<>>
  /\ response = NoResponse
  /\ genRet = None

\* the prompt is built and the completion request is issued
CreateCompletion ==
  /\ gpc = "start"
  /\ gpc' = "awaiting"
  /\ requests' = Append(requests,
       [baseURL |-> BaseURL(config),
        model |-> TextOr(config.gptVersion, defaultModel),
        messages |-> generateCommitMessageChatCompletionPrompt(
                       build, diff, TextOr(config.language, <<"English">>), delimeter),
        temperature |-> NumberOr(config.temperature, defaultTemperature),
        max_tokens |-> NumberOr(config.maxTokens, defaultMaxTokens)])
  /\ UNCHANGED <<build, config, diff, delimeter, response, genRet>>
  /\ UNCHANGED <<approvalVars, wizardVars, commandVars>>

\* the completion call rejects
CreateCompletionRejects ==
  /\ gpc = "awaiting"
  /\ gpc' = "failed"
  /\ response' = [kind |-> "reject", choices |-> <<>>]
  /\ UNCHANGED <<build, config, diff, delimeter, requests, genRet>>
  /\ UNCHANGED <<approvalVars, wizardVars, commandVars>>

\* data.choices[0].message on an empty choices array throws a TypeError
GenerateNoChoice ==
  /\ gpc = "awaiting"
  /\ \E r \in Responses :
       /\ r.kind = "data" /\ r.choices = <<>>
       /\ response' = r
  /\ gpc' = "failed"
  /\ UNCHANGED <<build, config, diff, delimeter, requests, genRet>>
  /\ UNCHANGED <<approvalVars, wizardVars, commandVars>>

\* throw new Error("No commit message were generated. Try again.")
GenerateNoCommitMessage ==
  /\ gpc = "awaiting"
  /\ \E r \in Responses :
       /\ r.kind = "data" /\ r.choices # <<>>
       /\ NoCommitMessage(ContentOf(r.choices[1]))
       /\ response' = r
  /\ gpc' = "failed"
  /\ UNCHANGED <<build, config, diff, delimeter, requests, genRet>>
  /\ UNCHANGED <<approvalVars, wizardVars, commandVars>>

\* return commitMessage
GenerateReturns ==
  /\ gpc = "awaiting"
  /\ \E r \in Responses :
       /\ r.kind = "data" /\ r.choices # <<>>
       /\ ~NoCommitMessage(ContentOf(r.choices[1]))
       /\ response' = r
       /\ genRet' = Some(ContentOf(r.choices[1]).text)
  /\ gpc' = "returned"
  /\ UNCHANGED <<build, config, diff, delimeter, requests>>
  /\ UNCHANGED <<approvalVars, wizardVars, commandVars>>

NextGen ==
  \/ CreateCompletion \/ CreateCompletionRejects
  \/ GenerateNoChoice \/ GenerateNoCommitMessage \/ GenerateReturns

GenSpec == InitGen /\ [][NextGen]_vars

\* ------------------------------------------------------- approval flow
tempMessageFile == "vscode-aicommitmessage-uid.txt"
otherFile == "other.txt"
FileNames == {tempMessageFile, otherFile}

\* the value the save handler resolves with
SaveResult(editedText) ==
  [result |-> TRUE, edited |-> TRUE,
   editedMessage |-> Some(Trim(StripHeaderLines(editedText)))]

\* the value the close handler resolves with
CloseResult == [result |-> FALSE, edited |-> FALSE, editedMessage |-> None]

\* a resolve that settles the promise again on every call
ResolveAgain(p, v) == Some(v)

\* resolve of a promise: only the first call settles it
Resolve(p, v) == IF p = None THEN Some(v) ELSE p

\* a save guard that lets the save of any document through
SaveQualifiesAny(fileName) == fileName \in FileNames

\* the guard of the save handler
SaveQualifies(fileName) == fileName = tempMessageFile

\* a close guard that asks for some editor, not every editor, to show another file
CloseQualifiesSome(editors) == \E e \in editors : e # tempMessageFile

\* the guard of the close handler
CloseQualifies(editors) == \A e \in editors : e # tempMessageFile

\* what the user may have in the scratch document when saving it
SavedTexts(msg) ==
  {tempFileContent(msg)} \cup {explainingHeader \o t : t \in EditedTexts}
    \cup EditedTexts

InitApproval ==
  /\ CommandIdle
  /\ GenIdle
  /\ WizardIdle
  /\ apc = "start"
  /\ message \in NonEmptyTexts
  /\ fileExists = FALSE
  /\ deleteCount = 0
  /\ saveHandler = FALSE
  /\ closeHandler = FALSE
  /\ promise = None
  /\ ret = None
  /\ firstEvent = "none"
  /\ firstSaveText = None
  /\ resolveCalls = 0
  /\ events = 0

WriteFile ==
  /\ apc = "start"
  /\ apc' = "written"
  /\ fileExists' = TRUE
  /\ UNCHANGED <<genVars, wizardVars, commandVars>>
  /\ UNCHANGED <<message, deleteCount, saveHandler, closeHandler, promise,
                 ret, firstEvent, firstSaveText, resolveCalls, events>>

WriteFileFails ==
  /\ apc = "start"
  /\ apc' = "failed"
  /\ UNCHANGED <<genVars, wizardVars, commandVars>>
  /\ UNCHANGED <<message, fileExists, deleteCount, saveHandler, closeHandler,
                 promise, ret, firstEvent, firstSaveText, resolveCalls, events>>

OpenTextDocument ==
  /\ apc = "written"
  /\ apc' = "opened"
  /\ UNCHANGED <<genVars, wizardVars, commandVars>>
  /\ UNCHANGED <<message, fileExists, deleteCount, saveHandler, closeHandler,
                 promise, ret, firstEvent, firstSaveText, resolveCalls, events>>

OpenTextDocumentFails ==
  /\ apc = "written"
  /\ apc' = "failed"
  /\ UNCHANGED <<genVars, wizardVars, commandVars>>
  /\ UNCHANGED <<message, fileExists, deleteCount, saveHandler, closeHandler,
                 promise, ret, firstEvent, firstSaveText, resolveCalls, events>>

\* showTextDocument, then the promise executor, which registers both handlers
ShowTextDocument ==
  /\ apc = "opened"
  /\ apc' = "waiting"
  /\ saveHandler' = TRUE
  /\ closeHandler' = TRUE
  /\ UNCHANGED <<genVars, wizardVars, commandVars>>
  /\ UNCHANGED <<message, fileExists, deleteCount, promise, ret, firstEvent,
                 firstSaveText, resolveCalls, events>>

ShowTextDocumentFails ==
  /\ apc = "opened"
  /\ apc' = "failed"
  /\ UNCHANGED <<genVars, wizardVars, commandVars>>
  /\ UNCHANGED <<message, fileExists, deleteCount, saveHandler, closeHandler,
                 promise, ret, firstEvent, firstSaveText, resolveCalls, events>>

\* the save handler, run for a save of document fileName holding text
OnDidSaveTextDocument ==
  /\ saveHandler
  /\ events < MaxEvents
  /\ events' = events + 1
  /\ \E fileName \in FileNames, text \in SavedTexts(message) :
       /\ IF SaveQualifies(fileName)
          THEN /\ promise' = Resolve(promise, SaveResult(text))
               /\ resolveCalls' = resolveCalls + 1
          ELSE UNCHANGED <<promise, resolveCalls>>
       /\ IF firstEvent = "none" /\ fileName = tempMessageFile
          THEN firstEvent' = "save" /\ firstSaveText' = Some(text)
          ELSE UNCHANGED <<firstEvent, firstSaveText>>
  /\ UNCHANGED <<genVars, wizardVars, commandVars>>
  /\ UNCHANGED <<apc, message, fileExists, deleteCount, saveHandler,
                 closeHandler, ret>>

\* the visibility handler, run with the file names of the visible editors
OnDidChangeVisibleTextEditors ==
  /\ closeHandler
  /\ events < MaxEvents
  /\ events' = events + 1
  /\ \E editors \in SUBSET FileNames :
       /\ IF CloseQualifies(editors)
          THEN /\ promise' = Resolve(promise, CloseResult)
               /\ resolveCalls' = resolveCalls + 1
          ELSE UNCHANGED <<promise, resolveCalls>>
       /\ IF firstEvent = "none" /\ tempMessageFile \notin editors
          THEN firstEvent' = "close"
          ELSE UNCHANGED firstEvent
  /\ UNCHANGED <<genVars, wizardVars, commandVars>>
  /\ UNCHANGED <<apc, message, fileExists, deleteCount, saveHandler,
                 closeHandler, ret, firstSaveText>>

\* a continuation that disposes the save subscription only
DisposeSaveHandlerOnly ==
  /\ apc = "waiting"
  /\ promise # None
  /\ apc' = "deleting"
  /\ saveHandler' = FALSE
  /\ UNCHANGED <<genVars, wizardVars, commandVars>>
  /\ UNCHANGED <<message, fileExists, deleteCount, closeHandler, promise, ret,
                 firstEvent, firstSaveText, resolveCalls, events>>

\* the continuation of the await: both subscriptions are disposed
DisposeHandlers ==
  /\ apc = "waiting"
  /\ promise # None
  /\ apc' = "deleting"
  /\ saveHandler' = FALSE
  /\ closeHandler' = FALSE
  /\ UNCHANGED <<genVars, wizardVars, commandVars>>
  /\ UNCHANGED <<message, fileExists, deleteCount, promise, ret, firstEvent,
                 firstSaveText, resolveCalls, events>>

\* a return of the result that leaves the scratch file in place
DeleteFileSkipped ==
  /\ apc = "deleting"
  /\ apc' = "returned"
  /\ ret' = promise
  /\ UNCHANGED <<genVars, wizardVars, commandVars>>
  /\ UNCHANGED <<message, fileExists, deleteCount, saveHandler, closeHandler,
                 promise, firstEvent, firstSaveText, resolveCalls, events>>

\* fs.delete of the scratch file, then return result
DeleteFile ==
  /\ apc = "deleting"
  /\ apc' = "returned"
  /\ fileExists' = FALSE
  /\ deleteCount' = deleteCount + 1
  /\ ret' = promise
  /\ UNCHANGED <<genVars, wizardVars, commandVars>>
  /\ UNCHANGED <<message, saveHandler, closeHandler, promise, firstEvent,
                 firstSaveText, resolveCalls, events>>

DeleteFileFails ==
  /\ apc = "deleting"
  /\ apc' = "failed"
  /\ UNCHANGED <<genVars, wizardVars, commandVars>>
  /\ UNCHANGED <<message, fileExists, deleteCount, saveHandler, closeHandler,
                 promise, ret, firstEvent, firstSaveText, resolveCalls, events>>

NextApproval ==
  \/ WriteFile \/ WriteFileFails
  \/ OpenTextDocument \/ OpenTextDocumentFails
  \/ ShowTextDocument \/ ShowTextDocumentFails
  \/ OnDidSaveTextDocument \/ OnDidChangeVisibleTextEditors
  \/ DisposeHandlers
  \/ DeleteFile \/ DeleteFileFails

ApprovalSpec == InitApproval /\ [][NextApproval]_vars

\* ------------------------------------------------ configuration wizard
\* Settings texts are sequences of pieces: the prefixes the code tests for
\* ("http", "sk-", "pplx-") are pieces of their own.
customEndpoints == {<<"openai">>, <<"perplexity">>, <<"HTTP URL">>}

languageOptions ==
  {<<"English">>, <<"Korean">>, <<"Japanese">>, <<"Chinese">>, <<"Spanish">>,
   <<"Arabic">>, <<"Portuguese">>, <<"Russian">>, <<"French">>, <<"German">>,
   <<"Italian">>}

\* what the user may type into the three input boxes
UrlInputs == {<<>>, <<"http", "://host">>, <<"ftp", "://host">>}
VersionInputs == {<<>>, <<"gpt-4">>}
KeyInputs == {<<>>, <<"sk-", "abc">>, <<"pplx-", "abc">>, <<"abc">>}

\* an answer of a prompt: None when the user dismissed it
Answers(S) == {None} \cup {Some(x) : x \in S}

\* trimNewLines of @utils/text: line breaks at both ends are removed
RECURSIVE trimNewLines(_)
trimNewLines(str) ==
  IF str = <<>> THEN <<>>
  ELSE IF Head(str) = "\n" THEN trimNewLines(Tail(str))
  ELSE IF str[Len(str)] = "\n" THEN trimNewLines(SubSeq(str, 1, Len(str) - 1))
  ELSE str

\* !x || trimNewLines(x).length === 0, for an answer that may be undefined
IsBlank(answer) ==
  answer = None \/ answer[1] = <<>> \/ Len(trimNewLines(answer[1])) = 0

expectedPrefix(endpoint) ==
  IF ToLowerCase(endpoint) = <<"perplexity">> THEN <<"pplx-">> ELSE <<"sk-">>

\* a re-ask condition that accepts any non-blank key
ApiKeyInvalidBlankOnly(answer, endpoint) == IsBlank(answer)

\* the condition under which the API key is asked again
ApiKeyInvalid(answer, endpoint) ==
  IsBlank(answer) \/ ~StartsWith(answer[1], expectedPrefix(endpoint))

\* the condition under which the custom URL is refused
UrlInvalid(answer) == IsBlank(answer) \/ ~StartsWith(answer[1], <<"http">>)

\* the four settings keys, in the order the wizard writes them
WizardKeys ==
  <<"openAI.customEndpoint", "openAI.gptVersion", "openAI.apiKey", "openAI.language">>

InitWizard ==
  /\ CommandIdle
  /\ ApprovalIdle
  /\ GenIdle
  /\ wpc = "selectEndpoint"
  /\ customEndpoint = None
  /\ gptVersion = None
  /\ apiKey = None
  /\ language = None
  /\ notice = "none"
  /\ written = <<>>
  /\ dismissed = FALSE

\* showQuickPick(customEndpoints) and the code up to the next prompt
SelectEndpoint ==
  /\ wpc = "selectEndpoint"
  /\ \E selectedEndpoint \in Answers(customEndpoints) :
       IF selectedEndpoint = None
       THEN /\ wpc' = "cancelled"
            /\ notice' = "Operation cancelled."
            /\ dismissed' = TRUE
            /\ UNCHANGED customEndpoint
       ELSE IF selectedEndpoint[1] = <<"HTTP URL">>
       THEN /\ wpc' = "enterUrl"
            /\ UNCHANGED <<customEndpoint, notice, dismissed>>
       ELSE /\ wpc' = "enterGptVersion"
            /\ customEndpoint' = selectedEndpoint
            /\ UNCHANGED <<notice, dismissed>>
  /\ UNCHANGED <<gptVersion, apiKey, language, written>>
  /\ UNCHANGED <<approvalVars, genVars, commandVars>>

\* showInputBox for the custom HTTP URL: a refused or dismissed answer sets
\* customEndpoint to undefined, and the do-while shows the endpoint pick again
EnterUrl ==
  /\ wpc = "enterUrl"
  /\ \E answer \in Answers(UrlInputs) :
       /\ dismissed' = (dismissed \/ answer = None)
       /\ IF UrlInvalid(answer)
          THEN /\ notice' = "Valid HTTP URL is required."
               /\ customEndpoint' = None
               /\ wpc' = "selectEndpoint"
          ELSE /\ customEndpoint' = answer
               /\ wpc' = "enterGptVersion"
               /\ UNCHANGED notice
  /\ UNCHANGED <<gptVersion, apiKey, language, written>>
  /\ UNCHANGED <<approvalVars, genVars, commandVars>>

\* showInputBox for the GPT version
EnterGptVersion ==
  /\ wpc = "enterGptVersion"
  /\ \E answer \in Answers(VersionInputs) :
       /\ gptVersion' = answer
       /\ IF answer = None
          THEN /\ wpc' = "cancelled"
               /\ notice' = "Operation cancelled."
               /\ dismissed' = TRUE
          ELSE IF IsBlank(answer)
          THEN /\ notice' = "GPT Version is required."
               /\ UNCHANGED <<wpc, dismissed>>
          ELSE /\ wpc' = "enterApiKey"
               /\ UNCHANGED <<notice, dismissed>>
  /\ UNCHANGED <<customEndpoint, apiKey, language, written>>
  /\ UNCHANGED <<approvalVars, genVars, commandVars>>

\* showInputBox for the API key
EnterApiKey ==
  /\ wpc = "enterApiKey"
  /\ \E answer \in Answers(KeyInputs) :
       /\ apiKey' = answer
       /\ IF answer = None
          THEN /\ wpc' = "cancelled"
               /\ notice' = "Operation cancelled."
               /\ dismissed' = TRUE
          ELSE IF ApiKeyInvalid(answer, customEndpoint[1])
          THEN /\ notice' = "API Key must start with the expected prefix."
               /\ UNCHANGED <<wpc, dismissed>>
          ELSE /\ wpc' = "selectLanguage"
               /\ UNCHANGED <<notice, dismissed>>
  /\ UNCHANGED <<customEndpoint, gptVersion, language, written>>
  /\ UNCHANGED <<approvalVars, genVars, commandVars>>

\* showQuickPick(languageOptions)
SelectLanguage ==
  /\ wpc = "selectLanguage"
  /\ \E answer \in Answers(languageOptions) :
       /\ language' = answer
       /\ IF answer = None
          THEN /\ wpc' = "cancelled"
               /\ notice' = "Operation cancelled."
               /\ dismissed' = TRUE
          ELSE IF IsBlank(answer)
          THEN /\ notice' = "language is required."
               /\ UNCHANGED <<wpc, dismissed>>
          ELSE /\ wpc' = "setCustomEndpoint"
               /\ UNCHANGED <<notice, dismissed>>
  /\ UNCHANGED <<customEndpoint, gptVersion, apiKey, written>>
  /\ UNCHANGED <<approvalVars, genVars, commandVars>>

\* the four awaited setConfigurationValue calls, one after the other
SetCustomEndpoint ==
  /\ wpc = "setCustomEndpoint"
  /\ wpc' = "setGptVersion"
  /\ config' = [config EXCEPT !.customEndpoint = customEndpoint]
  /\ written' = Append(written, "openAI.customEndpoint")
  /\ UNCHANGED <<customEndpoint, gptVersion, apiKey, language, notice, dismissed>>
  /\ UNCHANGED <<build, gpc, diff, delimeter, requests, response, genRet>>
  /\ UNCHANGED <<approvalVars, commandVars>>

SetGptVersion ==
  /\ wpc = "setGptVersion"
  /\ wpc' = "setApiKey"
  /\ config' = [config EXCEPT !.gptVersion = gptVersion]
  /\ written' = Append(written, "openAI.gptVersion")
  /\ UNCHANGED <<customEndpoint, gptVersion, apiKey, language, notice, dismissed>>
  /\ UNCHANGED <<build, gpc, diff, delimeter, requests, response, genRet>>
  /\ UNCHANGED <<approvalVars, commandVars>>

SetApiKey ==
  /\ wpc = "setApiKey"
  /\ wpc' = "setLanguage"
  /\ config' = [config EXCEPT !.apiKey = apiKey]
  /\ written' = Append(written, "openAI.apiKey")
  /\ UNCHANGED <<customEndpoint, gptVersion, apiKey, language, notice, dismissed>>
  /\ UNCHANGED <<build, gpc, diff, delimeter, requests, response, genRet>>
  /\ UNCHANGED <<approvalVars, commandVars>>

\* the last write, then the "saved successfully" message
SetLanguage ==
  /\ wpc = "setLanguage"
  /\ wpc' = "saved"
  /\ config' = [config EXCEPT !.language = language]
  /\ written' = Append(written, "openAI.language")
  /\ notice' = "OpenAI API Key and configuration saved successfully."
  /\ UNCHANGED <<customEndpoint, gptVersion, apiKey, language, dismissed>>
  /\ UNCHANGED <<build, gpc, diff, delimeter, requests, response, genRet>>
  /\ UNCHANGED <<approvalVars, commandVars>>

NextWizard ==
  \/ SelectEndpoint \/ EnterUrl \/ EnterGptVersion \/ EnterApiKey
  \/ SelectLanguage
  \/ SetCustomEndpoint \/ SetGptVersion \/ SetApiKey \/ SetLanguage

WizardSpec == InitWizard /\ [][NextWizard]_vars

\* ----------------------------------------------------- generate command
\* a caught value: whether it is an Error instance, whether it carries
\* isAxiosError with response.data.error.message, and whether its message
\* includes "Incorrect API key provided"
ErrorValue(isError, axios, incorrectKey) ==
  [isError |-> isError, axios |-> axios, incorrectKey |-> incorrectKey,
   nullish |-> FALSE]

PlainError == ErrorValue(TRUE, FALSE, FALSE)

\* a rejection without a reason: the caught value is undefined or null
NullishValue ==
  [isError |-> FALSE, axios |-> FALSE, incorrectKey |-> FALSE, nullish |-> TRUE]

\* what a rejected call of an external collaborator may throw
Rejections == {PlainError, ErrorValue(FALSE, FALSE, FALSE), NullishValue}

\* what a rejected completion call may throw
ApiRejections ==
  Rejections \cup {ErrorValue(TRUE, FALSE, TRUE), ErrorValue(TRUE, TRUE, FALSE),
                   ErrorValue(FALSE, TRUE, FALSE)}

\* configuration.appearance.delimeter: not set, or the default "* "
CmdDelimeters == {None, Some(defaultDelimeter)}

\* isValidApiKey of @utils/text: an API key is configured
isValidApiKey == config.apiKey # None /\ config.apiKey[1] # <<>>

CmdConfigs ==
  {NoConfig,
   [NoConfig EXCEPT !.apiKey = Some(<<>>)],
   [NoConfig EXCEPT !.apiKey = Some(<<"sk-", "abc">>)],
   [NoConfig EXCEPT !.apiKey = Some(<<"pplx-", "abc">>),
                    !.customEndpoint = Some(<<"perplexity">>),
                    !.gptVersion = Some(<<"gpt-4">>),
                    !.language = Some(<<"Korean">>)]}

InitCommand ==
  /\ ApprovalIdle
  /\ WizardIdle
  /\ build = "part_000"
  /\ config \in CmdConfigs
  /\ gpc = "idle"
  /\ diff = <<>>
  /\ delimeter = None
  /\ requests = <<>>
  /\ response = NoResponse
  /\ genRet = None
  /\ cpc = "start"
  /\ gitExtension \in {"absent", "inactive", "active"}
  /\ cfgDelimeter \in CmdDelimeters
  /\ thrown = None
  /\ sink = <<>>
  /\ shown = <<>>
  /\ logged = <<>>

\* the wizard is started by executeCommand("aicommitmessage.setOpenAIApiKey")
StartWizard ==
  /\ wpc' = "selectEndpoint"
  /\ customEndpoint' = None
  /\ gptVersion' = None
  /\ apiKey' = None
  /\ language' = None
  /\ notice' = "none"
  /\ written' = <<>>
  /\ dismissed' = FALSE

\* the wizard has returned to its caller; its locals are gone
WizardReturned ==
  /\ wpc \in {"cancelled", "saved"}
  /\ wpc' = "idle"
  /\ customEndpoint' = None
  /\ gptVersion' = None
  /\ apiKey' = None
  /\ language' = None
  /\ UNCHANGED <<notice, written, dismissed>>

\* a start that does not test whether the git extension was found
GetGitExtensionNoTest ==
  /\ cpc = "start"
  /\ IF gitExtension = "inactive"
     THEN /\ cpc' = "activate"
          /\ logged' = logged \o <<"Starting generateAiCommitCommand", "Activating git extension">>
     ELSE /\ cpc' = "checkApiKey"
          /\ logged' = Append(logged, "Starting generateAiCommitCommand")
  /\ UNCHANGED <<gitExtension, cfgDelimeter, thrown, sink, shown>>
  /\ UNCHANGED <<approvalVars, genVars, wizardVars>>

\* getExtension and the two tests of gitExtension
GetGitExtension ==
  /\ cpc = "start"
  /\ IF gitExtension = "absent"
     THEN /\ cpc' = "catch"
          /\ thrown' = Some(PlainError)
          /\ logged' = Append(logged, "Starting generateAiCommitCommand")
     ELSE IF gitExtension = "inactive"
     THEN /\ cpc' = "activate"
          /\ logged' = logged \o <<"Starting generateAiCommitCommand", "Activating git extension">>
          /\ UNCHANGED thrown
     ELSE /\ cpc' = "checkApiKey"
          /\ logged' = Append(logged, "Starting generateAiCommitCommand")
          /\ UNCHANGED thrown
  /\ UNCHANGED <<gitExtension, cfgDelimeter, sink, shown>>
  /\ UNCHANGED <<approvalVars, genVars, wizardVars>>

\* await gitExtension.activate()
ActivateGitExtension ==
  /\ cpc = "activate"
  /\ cpc' = "checkApiKey"
  /\ gitExtension' = "active"
  /\ UNCHANGED <<cfgDelimeter, thrown, sink, shown, logged>>
  /\ UNCHANGED <<approvalVars, genVars, wizardVars>>

ActivateGitExtensionFails ==
  /\ cpc = "activate"
  /\ cpc' = "catch"
  /\ \E e \in Rejections : thrown' = Some(e)
  /\ UNCHANGED <<gitExtension, cfgDelimeter, sink, shown, logged>>
  /\ UNCHANGED <<approvalVars, genVars, wizardVars>>

\* if (!isValidApiKey()) the wizard is run
CheckApiKey ==
  /\ cpc = "checkApiKey"
  /\ IF isValidApiKey
     THEN /\ cpc' = "run"
          /\ UNCHANGED <<logged, wizardVars>>
     ELSE /\ cpc' = "wizard"
          /\ logged' = Append(logged, "OpenAI API Key is not set. Asking user to set it.")
          /\ StartWizard
  /\ UNCHANGED <<gitExtension, cfgDelimeter, thrown, sink, shown>>
  /\ UNCHANGED <<approvalVars, genVars>>

\* the awaited executeCommand resolves, however the wizard ended
AfterWizard ==
  /\ cpc = "wizard"
  /\ WizardReturned
  /\ cpc' = "run"
  /\ UNCHANGED <<gitExtension, cfgDelimeter, thrown, sink, shown, logged>>
  /\ UNCHANGED <<approvalVars, genVars>>

\* getConfiguration, the construction of the collaborators and, in
\* GenerateCompletionFlow.run, the diff provider's answer, after which the
\* flow calls messageGenerator.generate(diff, delimeter)
RunGetDiff ==
  /\ cpc = "run"
  /\ cpc' = "generate"
  /\ logged' = Append(logged, "Running generateCompletionFlow")
  /\ \E d \in DiffTexts : diff' = d
  /\ delimeter' = cfgDelimeter
  /\ gpc' = "start"
  /\ UNCHANGED <<build, config, requests, response, genRet>>
  /\ UNCHANGED <<gitExtension, cfgDelimeter, thrown, sink, shown>>
  /\ UNCHANGED <<approvalVars, wizardVars>>

\* new ChatgptMsgGenerator(configuration.openAI): the OpenAI client refuses
\* an undefined apiKey unless the environment supplies one
ConstructGeneratorFails ==
  /\ cpc = "run"
  /\ config.apiKey = None
  /\ cpc' = "catch"
  /\ thrown' = Some(PlainError)
  /\ UNCHANGED <<gitExtension, cfgDelimeter, sink, shown, logged>>
  /\ UNCHANGED <<approvalVars, genVars, wizardVars>>

RunGetDiffFails ==
  /\ cpc = "run"
  /\ cpc' = "catch"
  /\ logged' = Append(logged, "Running generateCompletionFlow")
  /\ \E e \in Rejections : thrown' = Some(e)
  /\ UNCHANGED <<gitExtension, cfgDelimeter, sink, shown>>
  /\ UNCHANGED <<approvalVars, genVars, wizardVars>>

\* generate has thrown: a rejection of the completion call carries whatever
\* the client threw, the two throws inside generate are Error instances
RunGenerateFails ==
  /\ cpc = "generate"
  /\ gpc = "failed"
  /\ cpc' = "catch"
  /\ \E e \in ApiRejections :
       /\ response.kind # "reject" => e = PlainError
       /\ thrown' = Some(e)
  /\ UNCHANGED <<gitExtension, cfgDelimeter, sink, shown, logged>>
  /\ UNCHANGED <<approvalVars, genVars, wizardVars>>

\* generate has returned: GenerateCompletionFlow was constructed without an
\* approval handler, so the flow hands the generated text to
\* commitMessageWriter.write, and the command returns
RunWrite ==
  /\ cpc = "generate"
  /\ gpc = "returned"
  /\ cpc' = "done"
  /\ sink' = Append(sink, genRet[1])
  /\ UNCHANGED <<gitExtension, cfgDelimeter, thrown, shown, logged>>
  /\ UNCHANGED <<approvalVars, genVars, wizardVars>>

RunWriteFails ==
  /\ cpc = "generate"
  /\ gpc = "returned"
  /\ cpc' = "catch"
  /\ \E e \in Rejections : thrown' = Some(e)
  /\ UNCHANGED <<gitExtension, cfgDelimeter, sink, shown, logged>>
  /\ UNCHANGED <<approvalVars, genVars, wizardVars>>

\* the notifications and log entries of the catch block for a caught value
AxiosReport(e) ==
  IF e.axios THEN <<"OpenAI API error">> ELSE <<>>

ErrorReport(e) ==
  IF ~e.isError THEN <<"Something went wrong. Please try again.">>
  ELSE IF e.incorrectKey
  THEN <<"error.message", "Your OpenAI API key is invalid. Please set a valid API key.">>
  ELSE <<"error.message">>

\* the catch block for a caught undefined or null: the read of
\* error.isAxiosError throws, and the command rejects with that TypeError
CatchThrows ==
  /\ cpc = "catch"
  /\ thrown[1].nullish
  /\ cpc' = "unhandled"
  /\ UNCHANGED <<gitExtension, cfgDelimeter, thrown, sink, shown, logged>>
  /\ UNCHANGED <<approvalVars, genVars, wizardVars>>

\* the catch block
Catch ==
  /\ cpc = "catch"
  /\ ~thrown[1].nullish
  /\ LET e == thrown[1]
     IN  /\ shown' = shown \o AxiosReport(e) \o ErrorReport(e)
         /\ logged' = logged \o AxiosReport(e) \o ErrorReport(e)
         /\ IF e.isError /\ e.incorrectKey
            THEN cpc' = "wizardAgain" /\ StartWizard
            ELSE cpc' = "done" /\ UNCHANGED wizardVars
  /\ UNCHANGED <<gitExtension, cfgDelimeter, thrown, sink>>
  /\ UNCHANGED <<approvalVars, genVars>>

\* a catch block that runs the flow again once the wizard has ended
AfterWizardAgainRetry ==
  /\ cpc = "wizardAgain"
  /\ WizardReturned
  /\ cpc' = "run"
  /\ UNCHANGED <<gitExtension, cfgDelimeter, thrown, sink, shown, logged>>
  /\ UNCHANGED <<approvalVars, genVars>>

\* the wizard opened by the catch block has ended; the command returns
AfterWizardAgain ==
  /\ cpc = "wizardAgain"
  /\ WizardReturned
  /\ cpc' = "done"
  /\ UNCHANGED <<gitExtension, cfgDelimeter, thrown, sink, shown, logged>>
  /\ UNCHANGED <<approvalVars, genVars>>

NextCommand ==
  \/ GetGitExtension \/ ActivateGitExtension \/ ActivateGitExtensionFails
  \/ CheckApiKey \/ AfterWizard
  \/ ConstructGeneratorFails
  \/ RunGetDiff \/ RunGetDiffFails \/ RunGenerateFails
  \/ RunWrite \/ RunWriteFails
  \/ Catch \/ CatchThrows \/ AfterWizardAgain
  \/ NextGen
  \/ NextWizard

CommandSpec == InitCommand /\ [][NextCommand]_vars

\* ------------------------------------------------------ the whole program
\* one of the four entry points is running
Init == InitApproval \/ InitGen \/ InitWizard \/ InitCommand

Next == NextApproval \/ NextGen \/ NextWizard \/ NextCommand

Spec == Init /\ [][Next]_vars

\* ------------------------------------------------- approval flow claims
\* the outcome the first qualifying event stands for
FirstOutcome ==
  IF firstEvent = "close"
  THEN [result |-> FALSE, edited |-> FALSE, editedMessage |-> None]
  ELSE [result |-> TRUE, edited |-> TRUE,
        editedMessage |-> Some(Trim(StripHeaderLines(firstSaveText[1])))]

\* C1: the scratch file is never deleted twice, and when the function has
\* returned an outcome (after a qualifying event) the file has been deleted
\* exactly once and no longer exists.
C1_DeletedOnceBeforeReturn ==
  /\ deleteCount <= 1
  /\ ret # None => (firstEvent # "none" /\ deleteCount = 1 /\ ~fileExists)

C1_Witness == ret # None /\ deleteCount = 1 /\ ~fileExists /\ events = 1

\* C2: once the function has exited with an error, the scratch file does
\* not exist.
C2_NoFailureLeavesFile == apc = "failed" => ~fileExists

\* C3: once settled the promise holds the outcome of the first qualifying
\* event, whatever events follow, and the function returns that outcome.
C3_FirstEventDecides ==
  /\ promise # None => (firstEvent # "none" /\ promise = Some(FirstOutcome))
  /\ promise = None => firstEvent = "none"
  /\ ret # None => ret = Some(FirstOutcome)

C3_Witness == ret # None /\ resolveCalls >= 2

\* C4: after a save the edited flag is true exactly when the final text
\* differs from the generated text.
C4_EditedIffDiffers ==
  (ret # None /\ ret[1].result) =>
    (ret[1].edited <=> ret[1].editedMessage # Some(message))

\* C5: a save of the unedited scratch content returns the generated text.
C5_RoundTrip ==
  (ret # None /\ firstEvent = "save" /\ firstSaveText = Some(tempFileContent(message)))
    => ret[1].editedMessage = Some(message)

\* C6: the function returns Cancelled (not accepted, not edited, no final
\* text) exactly when the first qualifying event was a visibility change
\* that hid the scratch file.
C6_CancelledIffClosedFirst ==
  ret # None =>
    ((~ret[1].result /\ ~ret[1].edited /\ ret[1].editedMessage = None)
       <=> firstEvent = "close")

C6_Witness == ret # None /\ firstEvent = "close" /\ ~ret[1].result /\ resolveCalls = 1

\* the text without the lines that both begin and end with "#"; a line ends
\* at a line break or at the end of the text
RECURSIVE DropMarkedLines(_)
DropMarkedLines(s) ==
  IF s = <<>> THEN <<>>
  ELSE LET breaks == {k \in 1..Len(s) : s[k] = "\n"}
           n == IF breaks = {} THEN Len(s) + 1
                ELSE CHOOSE k \in breaks : \A j \in breaks : k <= j
           line == SubSeq(s, 1, n - 1)
           marked == Len(line) >= 2 /\ line[1] = "#" /\ line[Len(line)] = "#"
           kept == IF marked THEN <<>>
                   ELSE IF n <= Len(s) THEN Append(line, "\n") ELSE line
       IN  kept \o DropMarkedLines(SubSeq(s, n + 1, Len(s)))

\* C14: after a save the final text is the saved content without exactly
\* the lines that begin and end with "#", trimmed.
C14_RemovesExactlyMarkedLines ==
  (ret # None /\ firstEvent = "save") =>
    ret[1].editedMessage = Some(Trim(DropMarkedLines(firstSaveText[1])))

\* C15: once the function has gone past the await (it is deleting the
\* file, has returned or has failed there), neither subscription is
\* registered, whichever event settled the promise; after the return no
\* handler runs, so nothing of the flow changes any more.
C15_DisposedBeforeReturn ==
  /\ apc \in {"deleting", "returned"} => (~saveHandler /\ ~closeHandler)
  /\ ret # None => (~ENABLED OnDidSaveTextDocument /\ ~ENABLED OnDidChangeVisibleTextEditors)

C15_Witness ==
  /\ apc = "returned"
  /\ firstEvent = "save"
  /\ ~saveHandler /\ ~closeHandler
  /\ events < MaxEvents

\* an event handler ran while no qualifying event had occurred yet, and the
\* event it ran for did not qualify either
NonQualifyingEvent ==
  /\ apc = "waiting"
  /\ firstEvent = "none"
  /\ events' = events + 1
  /\ firstEvent' = "none"

\* C21: while the flow waits for its outcome, a save of a document other
\* than the scratch file and a visibility change that leaves the scratch
\* file visible settle no outcome, dispose no subscription, do not delete
\* the scratch file and do not move the flow on; and the flow goes past the
\* await (and returns) only after a qualifying event has occurred.
C21_NonQualifyingEventsIgnored ==
  /\ [][NonQualifyingEvent =>
          UNCHANGED <<apc, promise, ret, resolveCalls, saveHandler,
                      closeHandler, fileExists, deleteCount>>]_vars
  /\ [](apc \in {"deleting", "returned"} => firstEvent # "none")

C21_Witness ==
  /\ apc = "waiting"
  /\ events = MaxEvents
  /\ firstEvent = "none"
  /\ promise = None
  /\ saveHandler /\ closeHandler
  /\ fileExists /\ deleteCount = 0

\* ----------------------------------------------------- generator claims
\* C7: every prompt sent holds exactly three messages, in the order system,
\* user, user, and the content of the last one is the diff itself, for
\* every diff (empty included), language and delimeter.
C7_PromptEndsWithDiff ==
  \A i \in 1..Len(requests) :
    LET m == requests[i].messages
    IN  /\ Len(m) = 3
        /\ m[1].role = "system" /\ m[2].role = "user" /\ m[3].role = "user"
        /\ m[3].content = diff

C7_Witness ==
  /\ Len(requests) = 1
  /\ diff = <<"a">>
  /\ delimeter = Some(<<"a">>)
  /\ requests[1].messages[3].content = <<"a">>

\* the first choice of the response holds a non-empty text
HasUsableText(r) ==
  /\ r.kind = "data"
  /\ r.choices # <<>>
  /\ r.choices[1].message # None
  /\ r.choices[1].message[1].content.tag = "string"
  /\ r.choices[1].message[1].content.text # <<>>

\* C8: generate has issued exactly one completion request when it ends; it
\* returns exactly the first choice's content when that is a non-empty
\* text, and for every other response it fails and returns no text.
C8_GenerateReturnsFirstChoice ==
  /\ Len(requests) <= 1
  /\ gpc \in {"awaiting", "returned", "failed"} => Len(requests) = 1
  /\ gpc = "returned" =>
       /\ HasUsableText(response)
       /\ genRet = Some(response.choices[1].message[1].content.text)
  /\ (response.kind # "none" /\ ~HasUsableText(response)) =>
       (gpc = "failed" /\ genRet = None)
  /\ (response.kind # "none" /\ HasUsableText(response)) => gpc = "returned"

C8_Witness == gpc = "returned" /\ genRet = Some(<<"a">>) /\ Len(requests) = 1

\* the languages and delimeters a second call of the builder is given
OtherLanguages == {<<"English">>, <<"Korean">>}
OtherDelimeters == {<<"*", " ">>, <<"a">>}

\* C16: the system message of a prompt is the one every language and
\* delimeter give, and a call that differs from it only in the language, or
\* only in the delimeter, gives a different user instruction.
C16_FixedSystemParameterizedUser ==
  \A i \in 1..Len(requests) :
    LET m == requests[i].messages
        lang == TextOr(config.language, <<"English">>)
        delim == OrDefault(delimeter, defaultDelimeter)
    IN  \A l2 \in OtherLanguages, d2 \in OtherDelimeters :
          LET other == generateCommitMessageChatCompletionPrompt(build, diff, l2, Some(d2))
          IN  /\ other[1] = m[1]
              /\ (l2 # lang /\ d2 = delim) => other[2] # m[2]
              /\ (l2 = lang /\ d2 # delim) => other[2] # m[2]

\* C17: a request goes to the fixed perplexity URL when the configured
\* endpoint is perplexity, to exactly the configured text when that is an
\* HTTP URL, and to the default (no base URL) otherwise.
C17_BaseUrlMapping ==
  \A i \in 1..Len(requests) :
    LET ep == config.customEndpoint
    IN  requests[i].baseURL =
          (IF ep = None \/ ep[1] = <<>> THEN None
           ELSE IF ToLowerCase(ep[1]) = <<"perplexity">>
           THEN Some(<<"https://api.perplexity.ai">>)
           ELSE IF LowerPiece(ep[1][1]) = "http" THEN ep
           ELSE None)

\* C18: a request carries the configured model, temperature and token
\* limit whenever one is configured, 0 included, and the default otherwise.
C18_ConfiguredOrDefault ==
  \A i \in 1..Len(requests) :
    /\ requests[i].model = TextOr(config.gptVersion, defaultModel)
    /\ requests[i].temperature =
         (IF config.temperature = None THEN defaultTemperature ELSE config.temperature[1])
    /\ requests[i].max_tokens =
         (IF config.maxTokens = None THEN defaultMaxTokens ELSE config.maxTokens[1])

\* ------------------------------------------------------- command claims
\* C9: every text in the commit message sink was written after the
\* approval flow of the invocation returned an accepted outcome and is that
\* outcome's final text; after a failed generation the sink is empty.
C9_WriteOnlyAfterApproval ==
  /\ \A i \in 1..Len(sink) :
       /\ ret # None
       /\ ret[1].result
       /\ ret[1].editedMessage = Some(sink[i])
  /\ gpc = "failed" => sink = <<>>

\* C12: the generation flow issues a completion request only in an
\* invocation that has a valid API key: after a wizard that left the key
\* unset, no request is issued.
C12_NoRequestWithoutKey ==
  (cpc = "generate" /\ requests # <<>>) => isValidApiKey

\* C13: an invocation issues at most one completion request, and once a
\* value has been caught no further request is issued, also after the
\* wizard that an "Incorrect API key provided" error opens.
C13_NoRetry ==
  [][/\ Len(requests') <= 1
     /\ thrown # None => requests' = requests]_vars

C13_Witness ==
  /\ cpc = "done"
  /\ thrown # None /\ thrown[1].incorrectKey
  /\ written = WizardKeys
  /\ Len(requests) = 1

\* the log entries the catch block writes
CatchEntries ==
  {"OpenAI API error", "error.message", "Something went wrong. Please try again.",
   "Your OpenAI API key is invalid. Please set a valid API key."}

\* C19: the command never ends with an unhandled error, and when it has
\* returned after a failure it has shown an error notification and written
\* a log entry for it.
C19_EveryFailureReported ==
  /\ cpc # "unhandled"
  /\ (cpc = "done" /\ thrown # None) =>
       /\ shown # <<>>
       /\ \E i \in 1..Len(logged) : logged[i] \in CatchEntries

\* the git extension was found inactive at the start of the invocation
WasInactive ==
  \/ gitExtension = "inactive"
  \/ \E i \in 1..Len(logged) : logged[i] = "Activating git extension"

\* C20 as stated: an invocation that found the git extension absent or
\* inactive never reaches the API key check, the configuration read or the
\* generation.
C20_AbsentOrInactiveEnds ==
  (gitExtension = "absent" \/ WasInactive) =>
    cpc \in {"start", "activate", "catch", "done", "unhandled"}

\* C20 as amended: an invocation that found the git extension absent ends
\* with that failure without an API key check, a configuration read or a
\* generation; one that found it inactive reaches them only after the
\* extension has been activated.
C20_AbsentEnds ==
  /\ gitExtension = "absent" =>
       /\ cpc \in {"start", "catch", "done"}
       /\ cpc # "start" => thrown = Some(PlainError)
       /\ wpc = "idle" /\ gpc = "idle" /\ requests = <<>> /\ sink = <<>>
  /\ cpc \in {"checkApiKey", "wizard", "run", "generate"} => gitExtension = "active"

C20_Witness ==
  /\ gitExtension = "absent"
  /\ cpc = "done"
  /\ shown = <<"error.message">>

\* -------------------------------------------------------- wizard claims
\* C10: once any prompt has been dismissed the wizard has ended cancelled
\* (no further prompt is pending or shown) and no setting has been written.
C10_DismissAborts == dismissed => (wpc = "cancelled" /\ written = <<>>)

\* C11: the wizard writes the four settings in order and only after every
\* prompt has a valid answer: the endpoint is a named choice or starts with
\* "http", the model is non-empty, the key starts with "pplx-" for
\* perplexity and with "sk-" otherwise, the language is one of the options;
\* what has been written is those answers, and a finished wizard has
\* written all four.
C11_WritesValidTogether ==
  /\ written = SubSeq(WizardKeys, 1, Len(written))
  /\ wpc = "saved" => written = WizardKeys
  /\ wpc \in {"setCustomEndpoint", "setGptVersion", "setApiKey", "setLanguage", "saved"}
       <=> (written # <<>> \/ wpc = "setCustomEndpoint")
  /\ wpc \in {"setCustomEndpoint", "setGptVersion", "setApiKey", "setLanguage", "saved"} =>
       /\ customEndpoint # None /\ gptVersion # None /\ apiKey # None /\ language # None
       /\ \/ customEndpoint[1] \in {<<"openai">>, <<"perplexity">>}
          \/ (customEndpoint[1] # <<>> /\ customEndpoint[1][1] = "http")
       /\ gptVersion[1] # <<>>
       /\ apiKey[1] # <<>>
       /\ apiKey[1][1] = (IF customEndpoint[1] = <<"perplexity">> THEN "pplx-" ELSE "sk-")
       /\ language[1] \in languageOptions
       /\ Len(written) >= 1 => config.customEndpoint = customEndpoint
       /\ Len(written) >= 2 => config.gptVersion = gptVersion
       /\ Len(written) >= 3 => config.apiKey = apiKey
       /\ Len(written) >= 4 => config.language = language

C11_Witness ==
  /\ wpc = "saved"
  /\ config.customEndpoint = Some(<<"perplexity">>)
  /\ config.apiKey = Some(<<"pplx-", "abc">>)
  /\ written = WizardKeys

====
